---------------------------- MODULE Spec2Model ----------------------------
(***************************************************************************)
(* A model of the http-client library: the HTTPClient class in its two     *)
(* implementation variants (src/httpClient.js, "js"; the TypeScript source *)
(* bundled in src/dist/httpClient.d.ts from line 161, "ts") and the        *)
(* AuthManager class in its two variants (src/unnamed/part_001, "simple";  *)
(* src/dist/httpClient.d.ts from line 823, "rich").                        *)
(*                                                                         *)
(* Strings are modelled as sequences of tokens, a token being a TLA+       *)
(* string that stands for a run of characters: "Basic xyz" is              *)
(* <<"Basic", " ", "xyz">>.  startsWith, includes and template             *)
(* concatenation are computed on these sequences.  Header names are single *)
(* TLA+ strings; toLowerCase is computed by the table ToLowerCase.         *)
(***************************************************************************)
EXTENDS Integers, Sequences, FiniteSets, TLC

VARIABLES
    impl,       \* which HTTPClient variant is running: "js" or "ts"
    hdr,        \* the header object the caller holds a reference to
    hist,       \* the last call made on the header utilities / AuthManager
    auth,       \* the AuthManager instance (its private fields)
    cookieJar,  \* document.cookie, as a sequence of [name, value] cookies
    client,     \* the HTTPClient instance (its private fields)
    ops         \* the verb operations in progress, by operation id

vars == <<impl, hdr, hist, auth, cookieJar, client, ops>>

(***************************************************************************)
(* Bounds of the model.                                                    *)
(***************************************************************************)
MaxCalls == 3      \* header-utility calls made in one behaviour
MaxEnts == 2       \* entries of a header object the caller constructs
MaxBodyCalls == 1  \* handleBody / handleHeaders calls made in one behaviour

(***************************************************************************)
(* JavaScript values.                                                      *)
(***************************************************************************)
UNDEFINED == <<"\\undefined">>
NULL == <<"\\null">>

\* JavaScript truthiness of a string-or-null-or-undefined value.
Truthy(v) == v # UNDEFINED /\ v # NULL /\ v # <<>>

\* String.prototype.startsWith on token strings.
StartsWith(s, prefix) ==
    /\ Len(s) >= Len(prefix)
    /\ \A i \in 1..Len(prefix) : s[i] = prefix[i]

\* String.prototype.includes for a single-token needle.
\* The strings of the model that are proper substrings of a token.
SubstringsOf(tok) ==
    CASE tok = "application/json-seq" -> {"application/json"}
      [] tok = "application/xml-dtd" -> {"application/xml"}
      [] OTHER -> {}

Includes(s, tok) == \E i \in 1..Len(s) : s[i] = tok \/ tok \in SubstringsOf(s[i])

\* String.prototype.toLowerCase on the header names of the model.
ToLowerCase(k) ==
    CASE k \in {"Authorization", "authorization", "AUTHORIZATION"} -> "authorization"
      [] k \in {"API-Key", "api-key", "Api-Key"} -> "api-key"
      [] k \in {"Content-Type", "content-type", "CONTENT-TYPE"} -> "content-type"
      [] k \in {"Cookie", "cookie"} -> "cookie"
      [] k \in {"X-Trace", "x-trace"} -> "x-trace"
      [] OTHER -> k

Min(S) == CHOOSE x \in S : \A y \in S : x <= y

\* The first index of a set of indices, 0 (JavaScript's -1) when there is none.
FirstOf(S) == IF S = {} THEN 0 ELSE Min(S)

\* Array.prototype.findIndex over the keys of a pair list, matching up to case.
FindIndexCI(ents, key) ==
    FirstOf({i \in 1..Len(ents) : ToLowerCase(ents[i][1]) = ToLowerCase(key)})

\* Exact (case-sensitive) own-property lookup of a plain object, 0 when absent.
FindIndexExact(ents, key) ==
    FirstOf({i \in 1..Len(ents) : ents[i][1] = key})

(***************************************************************************)
(* The three HeadersInit representations.  Each is [rep, ents]:            *)
(*   "Headers": native Headers; ents holds lower-cased names, one entry    *)
(*              per name, values normalised (leading/trailing whitespace   *)
(*              removed) as the Fetch standard prescribes;                 *)
(*   "array":   string[][]; ents is the list of [name, value] pairs;       *)
(*   "object":  Record<string,string>; ents lists the own properties in    *)
(*              insertion order, exact keys distinct.                      *)
(***************************************************************************)
RECURSIVE StripLeft(_)
StripLeft(v) == IF v # <<>> /\ Head(v) = " " THEN StripLeft(Tail(v)) ELSE v

RECURSIVE StripRight(_)
StripRight(v) ==
    IF v # <<>> /\ v[Len(v)] = " " THEN StripRight(SubSeq(v, 1, Len(v) - 1)) ELSE v

\* Fetch standard "normalize" of a header value.
NormalizeValue(v) == StripRight(StripLeft(v))

\* The value of entry i, or `absent` when i is 0.
ValueAt(ents, i, absent) == IF i = 0 THEN absent ELSE ents[i][2]

\* The entries with entry i given the value, or with [key, value] appended
\* when i is 0.
PutAt(h, i, key, value) ==
    IF i # 0
    THEN [h EXCEPT !.ents[i] = <<@[1], value>>]
    ELSE [h EXCEPT !.ents = Append(@, <<key, value>>)]

\* Headers.prototype.get: null when the name is absent.
NativeGet(h, key) == ValueAt(h.ents, FindIndexCI(h.ents, key), NULL)

\* Headers.prototype.set: replaces the value of the name, or appends.
NativeSet(h, key, value) ==
    PutAt(h, FindIndexCI(h.ents, key), ToLowerCase(key), NormalizeValue(value))

\* headers[key] = value on a plain object.
ObjectAssign(h, key, value) == PutAt(h, FindIndexExact(h.ents, key), key, value)

\* headers[key] on a plain object.
ObjectRead(h, key) == ValueAt(h.ents, FindIndexExact(h.ents, key), UNDEFINED)

(***************************************************************************)
(* HTTPClient.getHeader, per variant.                                      *)
(***************************************************************************)
\* value !== null ? value : undefined
NullToUndefined(value) == IF value # NULL THEN value ELSE UNDEFINED

\* "js": the plain object is searched with
\* Object.keys(headers).find(k => k.toLowerCase() === key.toLowerCase()).
getHeaderJs(h, key) ==
    IF h.rep = "Headers" THEN NullToUndefined(NativeGet(h, key))
    ELSE ValueAt(h.ents, FindIndexCI(h.ents, key), UNDEFINED)

\* "ts": the plain object is read with headers[key].
getHeaderTs(h, key) ==
    IF h.rep = "Headers" THEN NullToUndefined(NativeGet(h, key))
    ELSE IF h.rep = "array" THEN ValueAt(h.ents, FindIndexCI(h.ents, key), UNDEFINED)
    ELSE ObjectRead(h, key)

getHeader(v, h, key) == IF v = "js" THEN getHeaderJs(h, key) ELSE getHeaderTs(h, key)

(***************************************************************************)
(* HTTPClient.setHeader: the same code in both variants.  It mutates the   *)
(* object in place; the model returns the object after the call.           *)
(***************************************************************************)
\* A setHeader that always pushes (the bug applyAuth has on pair lists).
SetHeaderArrayPush(h, key, value) ==
    [h EXCEPT !.ents = Append(@, <<key, value>>)]

SetHeaderArray(h, key, value) == PutAt(h, FindIndexCI(h.ents, key), key, value)

setHeader(h, key, value) ==
    IF h.rep = "Headers" THEN NativeSet(h, key, value)
    ELSE IF h.rep = "array" THEN SetHeaderArray(h, key, value)
    ELSE ObjectAssign(h, key, value)


(***************************************************************************)
(* AuthManager.  auth = [variant, jwtToken, useSecureCookie, cookieName];  *)
(* the "simple" variant has the jwtToken field only.                       *)
(***************************************************************************)
\* decodeURIComponent on one token: "%20" is a well-formed escape, "%" a
\* malformed one (URIError), anything else stands for itself.
DecodeToken(t) == IF t = "%20" THEN " " ELSE t

DecodeURIComponent(v) ==
    IF Includes(v, "%")
    THEN [threw |-> "URIError", val |-> UNDEFINED]
    ELSE [threw |-> "", val |-> [i \in 1..Len(v) |-> DecodeToken(v[i])]]

\* AuthManager.getCookie: the first "name=value" of document.cookie whose
\* name is `name` and whose value is not empty (the regular expression
\* '(^| )' + name + '=([^;]+)'), decoded; null when there is none.
MatchOf(jar, i) ==
    IF i = 0 THEN [threw |-> "", val |-> NULL] ELSE DecodeURIComponent(jar[i].value)

getCookie(jar, name) ==
    MatchOf(jar, FirstOf({i \in 1..Len(jar) : jar[i].name = name /\ jar[i].value # <<>>}))

\* The template literal `Bearer ${this.jwtToken}`.
BearerOf(token) == <<"Bearer", " ">> \o token

\* The jwtToken branch of applyAuth: the same code in both variants.
ApplyToken(h, token) ==
    IF h.rep = "Headers" THEN NativeSet(h, "Authorization", BearerOf(token))
    ELSE IF h.rep = "array"
    THEN [h EXCEPT !.ents = Append(@, <<"Authorization", BearerOf(token)>>)]
    ELSE ObjectAssign(h, "Authorization", BearerOf(token))

\* AuthManager.applyAuth: [headers, threw, log], headers being the object
\* after the call and log the console lines written.
CookieBranch(h, authToken) ==
    IF authToken.threw # ""
    THEN [headers |-> h, threw |-> authToken.threw, log |-> <<>>]
    ELSE IF Truthy(authToken.val)
    THEN [headers |-> h, threw |-> "",
          log |-> <<[level |-> "info", what |-> "secure-cookie", arg |-> <<>>]>>]
    ELSE [headers |-> h, threw |-> "", log |-> <<>>]

applyAuth(a, h, jar) ==
    IF Truthy(a.jwtToken)
    THEN [headers |-> ApplyToken(h, a.jwtToken), threw |-> "", log |-> <<>>]
    ELSE IF a.variant = "rich" /\ a.useSecureCookie
    THEN CookieBranch(h, getCookie(jar, a.cookieName))
    ELSE [headers |-> h, threw |-> "", log |-> <<>>]

NewAuthManager(variant) ==
    [variant |-> variant, jwtToken |-> NULL,
     useSecureCookie |-> FALSE, cookieName |-> "auth_token"]

(***************************************************************************)
(* Errors and console lines.  An error is [name, message]; a console line  *)
(* is [level, what, arg], arg being the text that varies.                  *)
(***************************************************************************)
NoError == [name |-> "", message |-> <<>>]
Err(name, message) == [name |-> name, message |-> message]
Line(level, what, arg) == [level |-> level, what |-> what, arg |-> arg]

(***************************************************************************)
(* HTTPClient.checkSecurity and checkCookieSecurity (the "ts" variant; the *)
(* "js" variant has neither).  A base URL is [scheme, host, query]: the    *)
(* scheme as written ("" for a relative reference), the list of the query  *)
(* string's parameter names.                                               *)
(***************************************************************************)
\* new URL(baseUrl) throws a TypeError unless the string is an absolute URL.
UrlParses(baseUrl) == baseUrl.scheme # ""

\* url.searchParams.has(param)
SearchParamsHas(baseUrl, param) ==
    \E i \in 1..Len(baseUrl.query) : baseUrl.query[i] = param

sensitiveParams == <<"api_key", "apikey", "access_token">>

\* A variant that takes the sensitive parameter standing first in the query
\* string instead of the first of the array.
FirstSensitiveInQuery(baseUrl) ==
    LET q == baseUrl.query
        S == {i \in 1..Len(q) : \E j \in 1..Len(sensitiveParams) : sensitiveParams[j] = q[i]}
    IN IF S = {} THEN 0
       ELSE CHOOSE j \in 1..Len(sensitiveParams) : sensitiveParams[j] = q[Min(S)]

\* The first sensitive parameter, in the order of the array, that the URL has;
\* 0 when it has none.
FirstSensitiveParam(baseUrl) ==
    FirstOf({i \in 1..Len(sensitiveParams) : SearchParamsHas(baseUrl, sensitiveParams[i])})

\* this.baseUrl.startsWith('http://')
StartsWithHttp(baseUrl) == baseUrl.scheme = "http://"

BasicAuthError ==
    Err("Error", <<"Insecure authentication scheme detected: Basic Auth is not allowed">>)
SensitiveParamError(param) ==
    Err("Error", <<"Sensitive information detected in URL query parameters: ", param,
                   " must not be passed in the URL">>)
ApiKeyError ==
    Err("Error", <<"Sensitive information detected in headers: API keys must not be passed in headers directly">>)
NonBearerError ==
    Err("Error", <<"Sensitive information detected: Only Bearer tokens should be used in Authorization headers">>)
InsecureProtocolError ==
    Err("Error", <<"Insecure protocol detected: Use HTTPS instead of HTTP">>)
InvalidUrlError == Err("TypeError", <<"Invalid URL">>)

checkCookieSecurity(cookie) ==
    IF ~Includes(cookie, "Secure")
    THEN Err("Error", <<"Cookies must be set with the Secure attribute.">>)
    ELSE IF ~Includes(cookie, "HttpOnly")
    THEN Err("Error", <<"Cookies must be set with the HttpOnly attribute.">>)
    ELSE IF ~Includes(cookie, "SameSite")
    THEN Err("Error", <<"Cookies must be set with the SameSite attribute (Lax or Strict).">>)
    ELSE NoError

Threw(e) == [threw |-> e, log |-> <<>>]

\* The rules of checkSecurity in the order of the code, on the values it
\* reads: the Authorization, API-Key and Cookie headers, whether the base URL
\* parses, the index of its first sensitive parameter, whether it starts with
\* 'http://'.
SecurityRules(authorization, apiKey, cookie, parses, param, plainHttp) ==
    IF Truthy(authorization) /\ StartsWith(authorization, <<"Basic", " ">>)
    THEN Threw(BasicAuthError)
    ELSE IF ~parses
    THEN Threw(InvalidUrlError)
    ELSE IF param # 0
    THEN Threw(SensitiveParamError(sensitiveParams[param]))
    ELSE IF Truthy(apiKey)
    THEN Threw(ApiKeyError)
    ELSE IF Truthy(authorization) /\ ~StartsWith(authorization, <<"Bearer", " ">>)
    THEN Threw(NonBearerError)
    ELSE IF plainHttp
    THEN Threw(InsecureProtocolError)
    ELSE IF Truthy(authorization) /\ StartsWith(authorization, <<"Bearer", " ">>)
    THEN IF ~Truthy(cookie)
         THEN [threw |-> NoError,
               log |-> <<Line("warn", "bearer-without-cookie", <<>>)>>]
         ELSE Threw(checkCookieSecurity(cookie))
    ELSE Threw(NoError)

\* checkSecurity: [threw, log].
checkSecurity(baseUrl, h) ==
    SecurityRules(getHeader("ts", h, "Authorization"), getHeader("ts", h, "API-Key"),
                  getHeader("ts", h, "Cookie"), UrlParses(baseUrl),
                  FirstSensitiveParam(baseUrl), StartsWithHttp(baseUrl))

(***************************************************************************)
(* HTTPClient.handleStatusCode.                                            *)
(***************************************************************************)
\* The informational cases without 304.
InfoCodesWithout304 == (100..103) \cup (200..208) \cup {226}
InfoCodes == (100..103) \cup (200..208) \cup {226, 304}
WarnCodes == {300, 301, 302, 303, 305, 307, 308}
ErrorCodes ==
    (400..418) \cup (421..426) \cup {428, 429, 431, 451} \cup (500..508) \cup {510, 511}

\* The reason phrase of the Error that the "ts" variant throws.
ReasonPhrase(code) ==
    CASE code = 400 -> "Bad Request"
      [] code = 401 -> "Unauthorized"
      [] code = 402 -> "Payment Required"
      [] code = 403 -> "Forbidden"
      [] code = 404 -> "Not Found"
      [] code = 405 -> "Method Not Allowed"
      [] code = 406 -> "Not Acceptable"
      [] code = 407 -> "Proxy Authentication Required"
      [] code = 408 -> "Request Timeout"
      [] code = 409 -> "Conflict"
      [] code = 410 -> "Gone"
      [] code = 411 -> "Length Required"
      [] code = 412 -> "Precondition Failed"
      [] code = 413 -> "Payload Too Large"
      [] code = 414 -> "URI Too Long"
      [] code = 415 -> "Unsupported Media Type"
      [] code = 416 -> "Range Not Satisfiable"
      [] code = 417 -> "Expectation Failed"
      [] code = 418 -> "I'm a teapot"
      [] code = 421 -> "Misdirected Request"
      [] code = 422 -> "Unprocessable Entity"
      [] code = 423 -> "Locked"
      [] code = 424 -> "Failed Dependency"
      [] code = 425 -> "Too Early"
      [] code = 426 -> "Upgrade Required"
      [] code = 428 -> "Precondition Required"
      [] code = 429 -> "Too Many Requests"
      [] code = 431 -> "Request Header Fields Too Large"
      [] code = 451 -> "Unavailable For Legal Reasons"
      [] code = 500 -> "Internal Server Error"
      [] code = 501 -> "Not Implemented"
      [] code = 502 -> "Bad Gateway"
      [] code = 503 -> "Service Unavailable"
      [] code = 504 -> "Gateway Timeout"
      [] code = 505 -> "HTTP Version Not Supported"
      [] code = 506 -> "Variant Also Negotiates"
      [] code = 507 -> "Insufficient Storage"
      [] code = 508 -> "Loop Detected"
      [] code = 510 -> "Not Extended"
      [] code = 511 -> "Network Authentication Required"
      [] OTHER -> ""

StatusError(code, resourceUrl) ==
    Err("Error", <<ToString(code), " ", ReasonPhrase(code), " - Resource: ", resourceUrl>>)
UnhandledStatusError(code, resourceUrl) ==
    Err("Error", <<"Unhandled status code: ", ToString(code), " - Resource: ", resourceUrl>>)

StatusLine(level, code, resourceUrl) ==
    <<Line(level, "status", <<ToString(code), resourceUrl>>)>>

\* A default case that warns and returns.
UnhandledStatusContinues(code, statusText, resourceUrl) ==
    [threw |-> NoError,
     log |-> <<Line("warn", "unhandled-status", <<ToString(code), statusText, resourceUrl>>)>>]

\* The default case of the switch.
UnhandledStatus(code, statusText, resourceUrl) ==
    [threw |-> UnhandledStatusError(code, resourceUrl),
     log |-> <<Line("warn", "unhandled-status", <<ToString(code), statusText, resourceUrl>>)>>]

StatusSwitchTs(code, statusText, resourceUrl) ==
    IF code \in InfoCodes
    THEN [threw |-> NoError, log |-> StatusLine("info", code, resourceUrl)]
    ELSE IF code \in WarnCodes
    THEN [threw |-> NoError, log |-> StatusLine("warn", code, resourceUrl)]
    ELSE IF code \in ErrorCodes
    THEN [threw |-> StatusError(code, resourceUrl),
          log |-> StatusLine("error", code, resourceUrl)]
    ELSE UnhandledStatus(code, statusText, resourceUrl)

StatusSwitchJs(code, statusText, resourceUrl) ==
    IF code \in InfoCodes
    THEN [threw |-> NoError, log |-> StatusLine("info", code, resourceUrl)]
    ELSE IF code \in WarnCodes
    THEN [threw |-> NoError, log |-> StatusLine("warn", code, resourceUrl)]
    ELSE IF code \in ErrorCodes
    THEN [threw |-> NoError, log |-> StatusLine("error", code, resourceUrl)]
    ELSE UnhandledStatus(code, statusText, resourceUrl)

\* The "ts" variant throws after console.error on every 4xx / 5xx case.
handleStatusCodeTs(response) ==
    StatusSwitchTs(response.status, response.statusText, response.url)

\* The "js" variant ends every 4xx / 5xx case with `break` after console.error.
handleStatusCodeJs(response) ==
    StatusSwitchJs(response.status, response.statusText, response.url)

handleStatusCode(v, response) ==
    IF v = "js" THEN handleStatusCodeJs(response) ELSE handleStatusCodeTs(response)

(***************************************************************************)
(* HTTPClient.handleBody and handleHeaders.  A body is [kind, text]; the   *)
(* kinds are "undefined", "null", "string", "FormData", "URLSearchParams", *)
(* "Blob", "ArrayBuffer", "object" (a truthy value of no native kind) and  *)
(* "falsy" (0, false, NaN).                                                *)
(***************************************************************************)
Body(kind, text) == [kind |-> kind, text |-> text]
NoBody == Body("null", <<>>)
NativeKinds == {"FormData", "URLSearchParams", "Blob", "ArrayBuffer", "string"}

\* JSON.stringify(body), a string.
JsonStringify(body) == Body("string", <<"JSON.stringify(">> \o body.text \o <<")">>)

\* A handleBody without the GET / HEAD case.
handleBodyAnyMethod(v, method, body) ==
    IF body.kind \in NativeKinds THEN body
    ELSE IF v = "js"
    THEN IF body.kind # "undefined" /\ body.kind # "null" THEN JsonStringify(body) ELSE NoBody
    ELSE IF body.kind # "undefined" THEN JsonStringify(body) ELSE NoBody

handleBody(v, method, body) ==
    IF method = "GET" \/ method = "HEAD" THEN NoBody
    ELSE IF body.kind \in NativeKinds THEN body
    ELSE IF v = "js"
    THEN IF body.kind # "undefined" /\ body.kind # "null" THEN JsonStringify(body) ELSE NoBody
    ELSE IF body.kind # "undefined" THEN JsonStringify(body) ELSE NoBody

\* JavaScript truthiness of a body.
BodyTruthy(body) ==
    /\ body.kind \notin {"undefined", "null", "falsy"}
    /\ ~(body.kind = "string" /\ body.text = <<>>)

handleHeaders(v, h, body) ==
    IF /\ BodyTruthy(body)
       /\ body.kind \notin NativeKinds
       /\ ~Truthy(getHeader(v, h, "Content-Type"))
    THEN setHeader(h, "Content-Type", <<"application/json">>)
    ELSE h

(***************************************************************************)
(* HTTPClient.handleContentType.  A response is [status, statusText, url,  *)
(* contentType, jsonOk]: contentType is the value headers.get returns      *)
(* (NULL when absent), jsonOk says whether the body parses as JSON.        *)
(***************************************************************************)
TextTypes ==
    {"text/plain", "text/html", "text/csv", "text/markdown", "application/x-yaml",
     "text/yaml"}
XmlTypes == {"application/xml", "text/xml"}
BlobTypes ==
    {"application/pdf", "application/rtf", "application/msword",
     "application/vnd.openxmlformats-officedocument.wordprocessingml.document",
     "application/vnd.ms-excel",
     "application/vnd.openxmlformats-officedocument.spreadsheetml.sheet",
     "application/vnd.ms-powerpoint",
     "application/vnd.openxmlformats-officedocument.presentationml.presentation",
     "image/png", "image/jpeg", "image/gif", "image/webp", "image/bmp",
     "image/svg+xml", "audio/mpeg", "audio/wav", "audio/ogg", "audio/aac",
     "audio/flac", "audio/webm", "video/mp4", "video/webm", "video/ogg",
     "video/avi", "video/mpeg", "video/quicktime", "application/zip",
     "application/x-7z-compressed", "application/x-rar-compressed",
     "application/x-tar", "application/gzip"}

IncludesAny(ct, Types) == \E t \in Types : Includes(ct, t)

\* The body-reading operation handleContentType starts, and what it logs:
\* [shape, log].
Read(shape) == [shape |-> shape, log |-> <<>>]

\* A switch that tries the text family ahead of JSON.
ContentTypeSwitchTextFirst(contentType) ==
    IF ~Truthy(contentType)
    THEN [shape |-> "text", log |-> <<Line("warn", "no-content-type", <<>>)>>]
    ELSE IF IncludesAny(contentType, TextTypes) THEN Read("text")
    ELSE IF Includes(contentType, "application/json") THEN Read("json")
    ELSE IF IncludesAny(contentType, XmlTypes) THEN Read("xml")
    ELSE IF Includes(contentType, "multipart/form-data") THEN Read("formData")
    ELSE IF Includes(contentType, "application/x-www-form-urlencoded")
    THEN Read("urlSearchParams")
    ELSE IF Includes(contentType, "application/octet-stream") THEN Read("arrayBuffer")
    ELSE IF IncludesAny(contentType, BlobTypes) THEN Read("blob")
    ELSE [shape |-> "text",
          log |-> <<Line("warn", "unhandled-content-type", contentType)>>]

ContentTypeSwitch(contentType) ==
    IF ~Truthy(contentType)
    THEN [shape |-> "text", log |-> <<Line("warn", "no-content-type", <<>>)>>]
    ELSE IF Includes(contentType, "application/json") THEN Read("json")
    ELSE IF IncludesAny(contentType, TextTypes) THEN Read("text")
    ELSE IF IncludesAny(contentType, XmlTypes) THEN Read("xml")
    ELSE IF Includes(contentType, "multipart/form-data") THEN Read("formData")
    ELSE IF Includes(contentType, "application/x-www-form-urlencoded")
    THEN Read("urlSearchParams")
    ELSE IF Includes(contentType, "application/octet-stream") THEN Read("arrayBuffer")
    ELSE IF IncludesAny(contentType, BlobTypes) THEN Read("blob")
    ELSE [shape |-> "text",
          log |-> <<Line("warn", "unhandled-content-type", contentType)>>]

handleContentType(response) == ContentTypeSwitch(response.contentType)

(***************************************************************************)
(* HTTPClient.request and headRequest up to the call of fetch: the part    *)
(* that runs synchronously inside the verb call.  The result is            *)
(*   headers: the caller's header object after the call (it is mutated in  *)
(*            place),                                                      *)
(*   events:  the steps taken, in order,                                   *)
(*   log:     the console lines written,                                   *)
(*   threw:   the error thrown before fetch, NoError when fetch was called,*)
(*   checked: the header objects handed to checkSecurity,                  *)
(*   sent:    the calls of fetch, each [method, headers, body].            *)
(***************************************************************************)
UndefinedBody == Body("undefined", <<>>)

FetchCall(method, h, payload) == [method |-> method, headers |-> h, body |-> payload]

Started(method) == Line("info", "starting", <<method>>)

\* fetch is called with the header object and the payload.
Fetched(method, h, payload, events, log, checked) ==
    [headers |-> h, events |-> events \o <<"fetch">>,
     log |-> log \o <<Started(method)>>, threw |-> NoError,
     checked |-> checked, sent |-> <<FetchCall(method, h, payload)>>]

\* src/httpClient.js: request (handleHeaders, handleBody, fetch) and
\* headRequest (handleHeaders, fetch).
SyncJs(method, body, h) ==
    IF method = "HEAD"
    THEN Fetched(method, handleHeaders("js", h, UndefinedBody), NoBody,
                 <<"handleHeaders">>, <<>>, <<>>)
    ELSE Fetched(method, handleHeaders("js", h, body), handleBody("js", method, body),
                 <<"handleHeaders", "handleBody">>, <<>>, <<>>)

\* checkSecurity threw: the error leaves request before the try block.
Refused(h, sec, events, log) ==
    [headers |-> h, events |-> events \o <<"checkSecurity">>,
     log |-> log \o sec.log, threw |-> sec.threw,
     checked |-> <<h>>, sent |-> <<>>]

\* The outcome of checkSecurity(headers) decides whether the try block that
\* calls fetch is entered.
Secured(sec, method, h, payload, events, log) ==
    IF sec.threw # NoError
    THEN Refused(h, sec, events, log)
    ELSE Fetched(method, h, payload, events \o <<"checkSecurity">>, log \o sec.log, <<h>>)

\* What follows applyAuth and handleHeaders in the "ts" variant:
\* checkSecurity(headers), then the try block that calls fetch.
SecureThenFetch(c, method, h, payload, events, log) ==
    Secured(checkSecurity(c.baseUrl, h), method, h, payload, events, log)

\* applyAuth threw: nothing of request or headRequest catches it.
AuthThrew(h, r, events) ==
    [headers |-> h, events |-> events \o <<"applyAuth">>, log |-> r.log,
     threw |-> Err(r.threw, <<"URI malformed">>), checked |-> <<>>, sent |-> <<>>]

\* if (this.authManager) headers = this.authManager.applyAuth(headers)
MaybeApplyAuth(c, a, h, jar) ==
    IF c.hasAuth THEN applyAuth(a, h, jar) ELSE [headers |-> h, threw |-> "", log |-> <<>>]

AuthEvents(c) == IF c.hasAuth THEN <<"applyAuth">> ELSE <<>>

\* The "ts" request after applyAuth returned r.
AfterAuthRequest(c, r, method, body, h) ==
    IF r.threw # ""
    THEN AuthThrew(h, r, <<>>)
    ELSE SecureThenFetch(c, method, handleHeaders("ts", r.headers, body),
                         handleBody("ts", method, body),
                         AuthEvents(c) \o <<"handleHeaders", "handleBody">>, r.log)

\* The "ts" request: applyAuth, handleHeaders, handleBody, checkSecurity, fetch.
SyncTsRequest(c, a, jar, method, body, h) ==
    AfterAuthRequest(c, MaybeApplyAuth(c, a, h, jar), method, body, h)

\* A headRequest whose options hold a copy of the headers, taken when the
\* options are built, ahead of applyAuth.
AfterAuthHeadCopiedOptions(c, r, method, h1) ==
    IF r.threw # ""
    THEN AuthThrew(h1, r, <<"handleHeaders">>)
    ELSE LET x == SecureThenFetch(c, method, r.headers, NoBody,
                                  <<"handleHeaders">> \o AuthEvents(c), r.log)
         IN [x EXCEPT !.sent = IF x.sent = <<>> THEN <<>>
                                ELSE <<FetchCall(method, h1, NoBody)>>]

\* The "ts" headRequest after applyAuth returned r for the headers h1.
AfterAuthHead(c, r, method, h1) ==
    IF r.threw # ""
    THEN AuthThrew(h1, r, <<"handleHeaders">>)
    ELSE SecureThenFetch(c, method, r.headers, NoBody,
                         <<"handleHeaders">> \o AuthEvents(c), r.log)

\* applyAuth on the headers handleHeaders returned.
HeadAuth(c, a, jar, method, h1) ==
    AfterAuthHead(c, MaybeApplyAuth(c, a, h1, jar), method, h1)

\* The "ts" headRequest: handleHeaders, applyAuth, checkSecurity, fetch.  The
\* options hold the header object itself, so what applyAuth writes into it
\* afterwards is part of what fetch receives.
SyncTsHead(c, a, jar, method, h) ==
    HeadAuth(c, a, jar, method, handleHeaders("ts", h, UndefinedBody))

SyncPart(v, c, a, jar, method, body, h) ==
    IF v = "js" THEN SyncJs(method, body, h)
    ELSE IF method = "HEAD" THEN SyncTsHead(c, a, jar, method, h)
    ELSE SyncTsRequest(c, a, jar, method, body, h)

\* hist: the last call, the header object before it, what it returned or threw.
NoHeaders == [rep |-> "object", ents |-> <<>>]
NoCall == [op |-> "none", key |-> "", value |-> <<>>, before |-> NoHeaders,
           ret |-> UNDEFINED, threw |-> "", n |-> 0]

\* document.cookie entries.
Cookie(name, value) == [name |-> name, value |-> value]

\* No two entries under one name, exactly / up to letter case.
NoExactDup(ents) ==
    \A i, j \in 1..Len(ents) : ents[i][1] = ents[j][1] => i = j
NoCIDup(ents) ==
    \A i, j \in 1..Len(ents) :
        ToLowerCase(ents[i][1]) = ToLowerCase(ents[j][1]) => i = j

(***************************************************************************)
(* The HTTPClient instance and its operations.                             *)
(***************************************************************************)
BaseUrl(scheme, query) == [scheme |-> scheme, host |-> "api.example.com", query |-> query]
SecureBase == BaseUrl("https://", <<>>)

\* The constructor.  The "js" class has the baseUrl field only.
NewClient(v, baseUrl, hasAuth) ==
    [baseUrl |-> baseUrl,
     hasAuth |-> v = "ts" /\ hasAuth,
     hasWarnedAboutNoAuth |-> v = "ts" /\ ~hasAuth,
     log |-> IF v = "ts" /\ ~hasAuth THEN <<Line("warn", "no-auth-manager", <<>>)>> ELSE <<>>]

OpIds == {"op1", "op2"}

NoResponse ==
    [status |-> 0, statusText |-> "", url |-> "", contentType |-> NULL, jsonOk |-> FALSE]
NoValue == [shape |-> ""]

\* An operation: pc is "idle", "fetching" (fetch was called and is pending),
\* "responded" (fetch resolved, the continuation has not run), "evaluated"
\* (handleStatusCode was called and its promise is awaited), "reading" (a
\* body-reading operation of the response is pending) or "done"; outcome is
\* "pending", "resolved" (with value) or "rejected" (with error); url is the
\* `url` constant of the call, which fetch is called with and the log lines
\* name.
IdleOp ==
    [pc |-> "idle", method |-> "", url |-> <<>>, events |-> <<>>, log |-> <<>>,
     sent |-> <<>>, checked |-> <<>>, response |-> NoResponse, rejection |-> NoError,
     outcome |-> "pending", error |-> NoError, value |-> NoValue]

\* The line the catch block writes: the method, the URL and the error.
Failed(method, url, e) == Line("error", "failed", <<method, url, e.message>>)

\* The endpoints the verbs are called with, and `${this.baseUrl}${endpoint}`.
Endpoints == {<<"/users/1">>, <<"/search", "?", "access_token">>}
UrlString(baseUrl) ==
    <<baseUrl.scheme, baseUrl.host>>
      \o (IF baseUrl.query = <<>> THEN <<>> ELSE <<"?">> \o baseUrl.query)
ResolvedUrl(c, endpoint) == UrlString(c.baseUrl) \o endpoint

\* A verb call that is suspended ahead of its call of fetch.
StartedOpSuspended(method, url, r) ==
    [IdleOp EXCEPT
       !.pc = "prepared", !.method = method, !.url = url,
       !.events = SelectSeq(r.events, LAMBDA e : e # "fetch"),
       !.log = r.log, !.checked = r.checked]

\* The operation a verb call leaves behind, from the result r of its
\* synchronous part.
StartedOp(method, url, r) ==
    [IdleOp EXCEPT
       !.pc = IF r.threw = NoError THEN "fetching" ELSE "done",
       !.method = method, !.url = url, !.events = r.events, !.log = r.log,
       !.sent = r.sent, !.checked = r.checked,
       !.outcome = IF r.threw = NoError THEN "pending" ELSE "rejected",
       !.error = r.threw]

VerbResult(o, method, url, r) ==
    /\ ops' = [ops EXCEPT ![o] = StartedOp(method, url, r)]
    /\ hdr' = r.headers

\* A verb call: request / headRequest run up to their first await.
Verb(o, method, body) ==
    /\ ops[o].pc = "idle"
    /\ \E endpoint \in Endpoints :
          VerbResult(o, method, ResolvedUrl(client, endpoint),
                     SyncPart(impl, client, auth, cookieJar, method, body, hdr))
    /\ UNCHANGED <<impl, hist, auth, cookieJar, client>>

GET(o) == Verb(o, "GET", UndefinedBody)
POST(o, body) == Verb(o, "POST", body)
PUT(o, body) == Verb(o, "PUT", body)
DELETE(o) == Verb(o, "DELETE", UndefinedBody)
PATCH(o, body) == Verb(o, "PATCH", body)
HEAD(o) == Verb(o, "HEAD", UndefinedBody)

\* The transport resolves the promise fetch returned.
TransportResolves(o, response) ==
    /\ ops[o].pc = "fetching"
    /\ ops' = [ops EXCEPT ![o].pc = "responded", ![o].response = response]
    /\ UNCHANGED <<impl, hdr, hist, auth, cookieJar, client>>

NetworkError == Err("TypeError", <<"Failed to fetch">>)
FetchFailed == Err("TypeError", <<"fetch failed">>)
TransportErrors == {NetworkError, FetchFailed}

\* A catch block that calls fetch once more before giving up.
TransportRejectsRetries(o) ==
    /\ ops[o].pc = "fetching"
    /\ ops' = [ops EXCEPT ![o].pc = IF Len(ops[o].sent) < 2 THEN "fetching" ELSE "done",
                          ![o].events = @ \o <<"catch", "fetch">>,
                          ![o].sent = @ \o @]
    /\ UNCHANGED <<impl, hdr, hist, auth, cookieJar, client>>

\* The catch block after the promise of fetch rejected with e.
Caught(op, e, thrown) ==
    [op EXCEPT !.pc = "done",
               !.events = @ \o <<"catch">>,
               !.log = @ \o <<Failed(op.method, op.url, e)>>,
               !.rejection = e,
               !.outcome = "rejected",
               !.error = thrown]

\* A catch block that throws an error of its own.
TransportRejectsWrapped(o) ==
    /\ ops[o].pc = "fetching"
    /\ \E e \in TransportErrors :
          ops' = [ops EXCEPT ![o] = Caught(ops[o], e, Err("Error", <<"Request failed">>))]
    /\ UNCHANGED <<impl, hdr, hist, auth, cookieJar, client>>

\* The transport rejects the promise fetch returned: the catch block logs and
\* rethrows the error.
TransportRejects(o) ==
    /\ ops[o].pc = "fetching"
    /\ \E e \in TransportErrors : ops' = [ops EXCEPT ![o] = Caught(ops[o], e, e)]
    /\ UNCHANGED <<impl, hdr, hist, auth, cookieJar, client>>

\* handleStatusCode was called: its body runs during the call and writes its
\* console line, and the promise it returns is awaited.
Evaluated(op, st) ==
    [op EXCEPT !.pc = "evaluated",
               !.events = @ \o <<"handleStatusCode">>,
               !.log = @ \o st.log]

\* handleStatusCode threw: the catch block logs and rethrows.
StatusThrew(op, st) ==
    [op EXCEPT !.pc = "done",
               !.events = @ \o <<"catch">>,
               !.log = @ \o <<Failed(op.method, op.url, st.threw)>>,
               !.outcome = "rejected", !.error = st.threw]

\* handleStatusCode returned and the call returns without reading the body.
Returned(op, st, shape) ==
    [op EXCEPT !.pc = "done",
               !.outcome = "resolved", !.value = [shape |-> shape]]

\* handleContentType started the body-reading operation ct.
Reading(op, st, ct) ==
    [op EXCEPT !.pc = "reading",
               !.events = @ \o <<"handleContentType">>,
               !.log = @ \o ct.log,
               !.value = [shape |-> ct.shape]]

\* A continuation without the 204 return.
ContinuationWithout204(v, op, st) ==
    IF st.threw # NoError THEN StatusThrew(op, st)
    ELSE IF op.method = "HEAD" THEN Returned(op, st, "headers")
    ELSE Reading(op, st, handleContentType(op.response))

\* A continuation that reads the body whatever handleStatusCode did.
ContinuationDecodesAlways(v, op, st) ==
    IF op.method = "HEAD" THEN Returned(op, st, "headers")
    ELSE Reading(op, st, handleContentType(op.response))

Continuation(v, op, st) ==
    IF st.threw # NoError THEN StatusThrew(op, st)
    ELSE IF op.method = "HEAD" THEN Returned(op, st, "headers")
    ELSE IF v = "js" /\ op.response.status = 204 THEN Returned(op, st, "undefined")
    ELSE Reading(op, st, handleContentType(op.response))

\* The continuation after `await fetch`: the call of handleStatusCode, whose
\* promise is awaited.
AfterFetch(o) ==
    /\ ops[o].pc = "responded"
    /\ ops' = [ops EXCEPT ![o] = Evaluated(ops[o], handleStatusCode(impl, ops[o].response))]
    /\ UNCHANGED <<impl, hdr, hist, auth, cookieJar, client>>

\* The continuation after `await this.handleStatusCode(response)`: the catch
\* block when it threw, else the return of the headers (HEAD), the 204 return
\* ("js"), or the call of handleContentType.
AfterStatus(o) ==
    /\ ops[o].pc = "evaluated"
    /\ ops' = [ops EXCEPT ![o] =
                 Continuation(impl, ops[o], handleStatusCode(impl, ops[o].response))]
    /\ UNCHANGED <<impl, hdr, hist, auth, cookieJar, client>>

JsonSyntaxError == Err("SyntaxError", <<"Unexpected token">>)

\* response.json() rejected: "ts" awaits inside the try block, so its catch
\* logs; "js" returns the promise, so the rejection passes the catch block by.
JsonRejected(v, op) ==
    [op EXCEPT !.pc = "done",
               !.events = @ \o (IF v = "ts" THEN <<"catch">> ELSE <<>>),
               !.log = @ \o (IF v = "ts" THEN <<Failed(op.method, op.url, JsonSyntaxError)>>
                                         ELSE <<>>),
               !.outcome = "rejected", !.error = JsonSyntaxError,
               !.value = NoValue]

Settled(v, op) ==
    IF op.value.shape = "json" /\ ~op.response.jsonOk
    THEN JsonRejected(v, op)
    ELSE [op EXCEPT !.pc = "done", !.outcome = "resolved"]

\* The body-reading operation settles; response.json() rejects when the body
\* is not JSON.
BodySettles(o) ==
    /\ ops[o].pc = "reading"
    /\ ops' = [ops EXCEPT ![o] = Settled(impl, ops[o])]
    /\ UNCHANGED <<impl, hdr, hist, auth, cookieJar, client>>

Response(status, contentType, jsonOk) ==
    [status |-> status, statusText |-> "status-text", url |-> "https://x/y",
     contentType |-> contentType, jsonOk |-> jsonOk]

JsonObject == Body("object", <<"{a:1}">>)

(***************************************************************************)
(* Spec: one verb operation on a client, over the header objects, base     *)
(* URLs and AuthManager states that the security rules tell apart.         *)
(***************************************************************************)
Option(S) == {<<>>} \cup {<<x>> : x \in S}

SecContents ==
    {a \o k \o c :
        a \in Option({"Authorization", "authorization"}
                     \X {<<"Basic", " ", "xyz">>, <<"Bearer", " ", "t0">>,
                         <<"Digest", " ", "abc">>}),
        k \in Option({"API-Key", "api-key"} \X {<<"k-123">>}),
        c \in Option(({"Cookie"}
                       \X {<<"sid=1", "; ", "Secure", "; ", "HttpOnly", "; ", "SameSite", "=Strict">>,
                           <<"sid=1", "; ", "HttpOnly", "; ", "SameSite", "=Strict">>,
                           <<"sid=1", "; ", "Secure", "; ", "SameSite", "=Strict">>,
                           <<"sid=1", "; ", "Secure", "; ", "HttpOnly">>,
                           <<"sid=1">>})
                      \cup {<<"cookie", <<"sid=1">>>>})}

SecHeaderObjects == {[rep |-> rep, ents |-> e] : rep \in {"array", "object"}, e \in SecContents}
    \cup {[rep |-> "Headers", ents |-> [i \in 1..Len(e) |-> <<ToLowerCase(e[i][1]), e[i][2]>>]] :
            e \in {x \in SecContents : NoCIDup(x)}}

SecBaseUrls ==
    {BaseUrl(scheme, query) :
        scheme \in {"https://", "http://", "HTTP://", ""},
        query \in {<<>>, <<"apikey">>, <<"page", "access_token", "api_key">>}}

WithToken(a, token) == [a EXCEPT !.jwtToken = token]
WithCookie(a, name) == [a EXCEPT !.useSecureCookie = TRUE, !.cookieName = name]

GoodJar == <<Cookie("auth_token", <<"abc">>)>>
BadJar == <<Cookie("auth_token", <<"100", "%">>)>>

\* [impl, hasAuth, auth, jar]
SecSetups ==
    { <<"js", FALSE, NewAuthManager("simple"), <<>>>>,
      <<"ts", FALSE, NewAuthManager("simple"), <<>>>>,
      <<"ts", TRUE, NewAuthManager("rich"), <<>>>>,
      <<"ts", TRUE, WithToken(NewAuthManager("simple"), <<"t1">>), <<>>>>,
      <<"ts", TRUE, WithCookie(NewAuthManager("rich"), "auth_token"), GoodJar>>,
      <<"ts", TRUE, WithCookie(NewAuthManager("rich"), "auth_token"), BadJar>> }

Init ==
    /\ \E su \in SecSetups, b \in SecBaseUrls :
          /\ impl = su[1]
          /\ client = NewClient(su[1], b, su[2])
          /\ auth = su[3]
          /\ cookieJar = su[4]
    /\ hdr \in SecHeaderObjects
    /\ hist = NoCall
    /\ ops = [o \in OpIds |-> IdleOp]

SecResponses == {Response(200, <<"application/json">>, TRUE), Response(404, NULL, FALSE)}

Next ==
    \E o \in {"op1"} :
        \/ GET(o)
        \/ \E body \in {JsonObject, UndefinedBody} : POST(o, body)
        \/ \E body \in {JsonObject, UndefinedBody} : PUT(o, body)
        \/ DELETE(o)
        \/ \E body \in {JsonObject, UndefinedBody} : PATCH(o, body)
        \/ HEAD(o)
        \/ \E response \in SecResponses : TransportResolves(o, response)
        \/ TransportRejects(o)
        \/ AfterFetch(o)
        \/ AfterStatus(o)
        \/ BodySettles(o)

Spec == Init /\ [][Next]_vars

(***************************************************************************)
(* SpecStatus: one verb operation on a client that passes every security   *)
(* rule, answered with each status code.                                   *)
(***************************************************************************)
StatusCodes == (100..599) \cup {999}

InitStatus ==
    /\ impl \in {"js", "ts"}
    /\ client = NewClient(impl, SecureBase, FALSE)
    /\ auth = NewAuthManager("simple")
    /\ cookieJar = <<>>
    /\ hdr = NoHeaders
    /\ hist = NoCall
    /\ ops = [o \in OpIds |-> IdleOp]

NextStatus ==
    \E o \in {"op1"} :
        \/ GET(o)
        \/ POST(o, JsonObject)
        \/ PUT(o, JsonObject)
        \/ DELETE(o)
        \/ PATCH(o, JsonObject)
        \/ HEAD(o)
        \/ \E status \in StatusCodes, ct \in {NULL, <<"application/json">>} :
              TransportResolves(o, Response(status, ct, TRUE))
        \/ TransportRejects(o)
        \/ AfterFetch(o)
        \/ AfterStatus(o)
        \/ BodySettles(o)

SpecStatus == InitStatus /\ [][NextStatus]_vars

(***************************************************************************)
(* SpecConc: two verb operations in flight on one client that passes every *)
(* security rule; their steps interleave at the awaits.                    *)
(***************************************************************************)
NextConc ==
    \E o \in OpIds :
        \/ GET(o)
        \/ POST(o, JsonObject)
        \/ PUT(o, JsonObject)
        \/ DELETE(o)
        \/ PATCH(o, JsonObject)
        \/ HEAD(o)
        \/ \E response \in SecResponses : TransportResolves(o, response)
        \/ TransportRejects(o)
        \/ AfterFetch(o)
        \/ AfterStatus(o)
        \/ BodySettles(o)

SpecConc == InitStatus /\ [][NextConc]_vars

(***************************************************************************)
(* Inputs of the header-utility specifications.                            *)
(***************************************************************************)
SeqsUpTo(S, n) == UNION {[1..m -> S] : m \in 0..n}

BagNames == {"Authorization", "authorization", "Content-Type", "content-type"}
BagValues == {<<"Basic", " ", "xyz">>, <<"application/json">>}

\* The header objects a caller can construct from the given names and values.
HeaderObjects(Names, Values, n) ==
    LET E == SeqsUpTo(Names \X Values, n)
    IN {[rep |-> "array", ents |-> e] : e \in E}
       \cup {[rep |-> "object", ents |-> e] : e \in {x \in E : NoExactDup(x)}}
       \cup {[rep |-> "Headers", ents |-> e] :
               e \in {x \in E : /\ NoCIDup(x)
                                /\ \A i \in 1..Len(x) :
                                      /\ x[i][1] = ToLowerCase(x[i][1])
                                      /\ x[i][2] = NormalizeValue(x[i][2])}}


(***************************************************************************)
(* SpecBag: a caller applies the public getHeader / setHeader utilities to *)
(* a header object it holds.  Pair lists start without case-insensitive    *)
(* duplicate names.                                                        *)
(***************************************************************************)
InitBag ==
    /\ impl \in {"js", "ts"}
    /\ hdr \in {h \in HeaderObjects(BagNames, BagValues, MaxEnts) :
                  h.rep = "array" => NoCIDup(h.ents)}
    /\ hist = NoCall
    /\ auth = NewAuthManager("simple")
    /\ cookieJar = <<>>
    /\ client = NewClient(impl, SecureBase, FALSE)
    /\ ops = [o \in OpIds |-> IdleOp]

CallSetHeader(key, value) ==
    /\ hist.n < MaxCalls
    /\ hdr' = setHeader(hdr, key, value)
    /\ hist' = [op |-> "setHeader", key |-> key, value |-> value, before |-> hdr,
                ret |-> UNDEFINED, threw |-> "", n |-> hist.n + 1]
    /\ UNCHANGED <<impl, auth, cookieJar, client, ops>>

CallGetHeader(key) ==
    /\ hist.n < MaxCalls
    /\ hist' = [op |-> "getHeader", key |-> key, value |-> <<>>, before |-> hdr,
                ret |-> getHeader(impl, hdr, key), threw |-> "", n |-> hist.n + 1]
    /\ UNCHANGED <<impl, hdr, auth, cookieJar, client, ops>>

NextBag ==
    \/ \E key \in BagNames, value \in BagValues \cup {<<"text/plain">>} :
          CallSetHeader(key, value)
    \/ \E key \in BagNames : CallGetHeader(key)

SpecBag == InitBag /\ [][NextBag]_vars

(***************************************************************************)
(* SpecAuth: a caller drives an AuthManager (either variant) and applies   *)
(* it to a header object, as HTTPClient.request does.                      *)
(***************************************************************************)
AuthNames == {"Authorization", "authorization", "Cookie"}
AuthValues == {<<"Basic", " ", "xyz">>, <<"Bearer", " ", "t1">>}
Tokens == {<<"t1">>, <<"t2">>, <<>>}
CookieNames == {"auth_token", "sid"}

\* The contents of document.cookie the model starts from.
Jars ==
    { <<>>,
      <<Cookie("auth_token", <<"abc">>)>>,
      <<Cookie("sid", <<"abc">>)>>,
      <<Cookie("auth_token", <<"100", "%">>)>>,
      <<Cookie("auth_token", <<>>), Cookie("auth_token", <<"a", "%20", "b">>)>> }

InitAuth ==
    /\ impl = "ts"
    /\ hdr \in HeaderObjects(AuthNames, AuthValues, MaxEnts)
    /\ hist = NoCall
    /\ auth \in {NewAuthManager(v) : v \in {"simple", "rich"}}
    /\ cookieJar \in Jars
    /\ client = NewClient(impl, SecureBase, TRUE)
    /\ ops = [o \in OpIds |-> IdleOp]

Called(op) == [NoCall EXCEPT !.op = op, !.before = hdr, !.n = hist.n + 1]

SetJWTToken(token) ==
    /\ hist.n < MaxCalls
    /\ auth' = [auth EXCEPT !.jwtToken = token]
    /\ hist' = Called("setJWTToken")
    /\ UNCHANGED <<impl, hdr, cookieJar, client, ops>>

ClearJWTToken ==
    /\ hist.n < MaxCalls
    /\ auth' = [auth EXCEPT !.jwtToken = NULL]
    /\ hist' = Called("clearJWTToken")
    /\ UNCHANGED <<impl, hdr, cookieJar, client, ops>>

ConfigureSecureCookie(useSecureCookie, cookieName) ==
    /\ hist.n < MaxCalls
    /\ auth.variant = "rich"
    /\ auth' = [auth EXCEPT !.useSecureCookie = useSecureCookie,
                            !.cookieName = cookieName]
    /\ hist' = Called("configureSecureCookie")
    /\ UNCHANGED <<impl, hdr, cookieJar, client, ops>>

CallApplyAuth ==
    /\ hist.n < MaxCalls
    /\ LET r == applyAuth(auth, hdr, cookieJar)
       IN /\ hdr' = r.headers
          /\ hist' = [Called("applyAuth") EXCEPT
                         !.ret = IF r.threw = "" THEN r.headers.ents ELSE UNDEFINED,
                         !.threw = r.threw]
    /\ UNCHANGED <<impl, auth, cookieJar, client, ops>>

NextAuth ==
    \/ \E token \in Tokens : SetJWTToken(token)
    \/ ClearJWTToken
    \/ \E b \in BOOLEAN, name \in CookieNames : ConfigureSecureCookie(b, name)
    \/ CallApplyAuth

SpecAuth == InitAuth /\ [][NextAuth]_vars

(***************************************************************************)
(* SpecToken: setJWTToken, clearJWTToken and verb calls on a "ts" client   *)
(* with an AuthManager; the caller passes one header object, which holds   *)
(* no entry at first, to every verb call.                                  *)
(***************************************************************************)
InitToken ==
    /\ impl = "ts"
    /\ hdr \in {[rep |-> rep, ents |-> <<>>] : rep \in {"Headers", "array", "object"}}
    /\ hist = NoCall
    /\ auth = NewAuthManager("simple")
    /\ cookieJar = <<>>
    /\ client = NewClient(impl, SecureBase, TRUE)
    /\ ops = [o \in OpIds |-> IdleOp]

NextToken ==
    \/ \E token \in {<<"t1">>, <<"t2">>} : SetJWTToken(token)
    \/ ClearJWTToken
    \/ \E o \in OpIds :
          \/ GET(o)
          \/ POST(o, JsonObject)
          \/ PUT(o, JsonObject)
          \/ DELETE(o)
          \/ PATCH(o, JsonObject)
          \/ HEAD(o)

SpecToken == InitToken /\ [][NextToken]_vars

(***************************************************************************)
(* SpecDecode: one verb operation whose response carries any of the        *)
(* Content-Type values that handleContentType tells apart.                 *)
(***************************************************************************)
ContentTypes ==
    {NULL, <<>>, <<"application/weirdtype">>, <<"Application/JSON">>,
     <<"application/json", "; charset=utf-8">>, <<"application/json-seq">>,
     <<"application/xml-dtd">>, <<"text/html", ", ", "application/json">>,
     <<"image/png", ", ", "text/xml">>,
     <<"application/x-www-form-urlencoded", ", ", "multipart/form-data">>,
     <<"application/gzip", ", ", "application/octet-stream">>,
     <<"application/octet-stream", ", ", "application/x-www-form-urlencoded">>}
      \cup {<<t>> : t \in {"application/json", "multipart/form-data",
                            "application/x-www-form-urlencoded",
                            "application/octet-stream"}
                           \cup TextTypes \cup XmlTypes \cup BlobTypes}

DecodeStatuses == {200, 204}

InitDecode ==
    /\ impl \in {"js", "ts"}
    /\ client = NewClient(impl, SecureBase, FALSE)
    /\ auth = NewAuthManager("simple")
    /\ cookieJar = <<>>
    /\ hdr = NoHeaders
    /\ hist = NoCall
    /\ ops = [o \in OpIds |-> IdleOp]

NextDecode ==
    \/ GET("op1")
    \/ POST("op1", JsonObject)
    \/ PUT("op1", JsonObject)
    \/ DELETE("op1")
    \/ PATCH("op1", JsonObject)
    \/ HEAD("op1")
    \/ \E status \in DecodeStatuses, ct \in ContentTypes, jsonOk \in BOOLEAN :
          TransportResolves("op1", Response(status, ct, jsonOk))
    \/ TransportRejects("op1")
    \/ AfterFetch("op1")
    \/ AfterStatus("op1")
    \/ BodySettles("op1")

SpecDecode == InitDecode /\ [][NextDecode]_vars

(***************************************************************************)
(* SpecBody: handleBody and handleHeaders applied to the bodies and header *)
(* objects a caller can pass, and the verb calls that use them.  hist      *)
(* holds the method in key and the body in value.                          *)
(***************************************************************************)
Methods == {"GET", "POST", "PUT", "DELETE", "PATCH", "HEAD"}

RawString == Body("string", <<"raw">>)
EmptyString == Body("string", <<>>)
FalsyBody == Body("falsy", <<"0">>)

Bodies ==
    {UndefinedBody, NoBody, RawString, EmptyString, JsonObject, FalsyBody}
      \cup {Body(kind, <<"data">>) : kind \in NativeKinds \ {"string"}}

BodyNames == {"Content-Type", "content-type", "X-Trace"}
BodyValues == {<<"text/plain">>}

InitBody ==
    /\ impl \in {"js", "ts"}
    /\ hdr \in {h \in HeaderObjects(BodyNames, BodyValues, MaxEnts) :
                  h.rep = "array" => NoCIDup(h.ents)}
    /\ hist = NoCall
    /\ auth = NewAuthManager("simple")
    /\ cookieJar = <<>>
    /\ client = NewClient(impl, SecureBase, FALSE)
    /\ ops = [o \in OpIds |-> IdleOp]

CallHandleBody(method, body) ==
    /\ hist.n < MaxBodyCalls
    /\ hist' = [op |-> "handleBody", key |-> method, value |-> body, before |-> hdr,
                ret |-> handleBody(impl, method, body), threw |-> "", n |-> hist.n + 1]
    /\ UNCHANGED <<impl, hdr, auth, cookieJar, client, ops>>

CallHandleHeaders(body) ==
    /\ hist.n < MaxBodyCalls
    /\ hdr' = handleHeaders(impl, hdr, body)
    /\ hist' = [op |-> "handleHeaders", key |-> "", value |-> body, before |-> hdr,
                ret |-> handleHeaders(impl, hdr, body).ents, threw |-> "",
                n |-> hist.n + 1]
    /\ UNCHANGED <<impl, auth, cookieJar, client, ops>>

NextBody ==
    \/ \E method \in Methods, body \in Bodies : CallHandleBody(method, body)
    \/ \E body \in Bodies : CallHandleHeaders(body)
    \/ GET("op1")
    \/ \E body \in Bodies : POST("op1", body)
    \/ \E body \in Bodies : PUT("op1", body)
    \/ DELETE("op1")
    \/ \E body \in Bodies : PATCH("op1", body)
    \/ HEAD("op1")

SpecBody == InitBody /\ [][NextBody]_vars

(***************************************************************************)
(* C1: the status policy as the verb operations see it.                    *)
(***************************************************************************)
Contains(seq, x) == \E i \in 1..Len(seq) : seq[i] = x

\* The continuation after fetch has run for the operation.
Continued(op) == op.pc \in {"reading", "done"} /\ op.response # NoResponse

\* C1: an operation that received a response with a standard 4xx or 5xx status
\* code wrote an error-level log line and is rejected with the error
\* "<code> <reason phrase> - Resource: <resourceUrl>"; it never reads a body
\* or resolves, in either variant.
C1_ErrorStatusRejects ==
    \A o \in OpIds :
        (/\ Continued(ops[o])
         /\ ops[o].response.status \in
               (400..418) \cup (421..426) \cup {428, 429, 431, 451}
                 \cup (500..508) \cup {510, 511}) =>
            /\ \E i \in 1..Len(ops[o].log) :
                  ops[o].log[i].level = "error" /\ ops[o].log[i].what = "status"
            /\ ops[o].outcome = "rejected"
            /\ ops[o].error = StatusError(ops[o].response.status, ops[o].response.url)

(***************************************************************************)
(* C2 to C6: the security check of the verb operations.                    *)
(***************************************************************************)
SameName(k1, k2) == ToLowerCase(k1) = ToLowerCase(k2)

\* The header set holds, under some casing of the name, an Authorization
\* value of the Basic scheme / an API-Key with a non-empty value.
CarriesBasic(h) ==
    \E i \in 1..Len(h.ents) :
        SameName(h.ents[i][1], "Authorization") /\ StartsWith(h.ents[i][2], <<"Basic", " ">>)
CarriesApiKey(h) ==
    \E i \in 1..Len(h.ents) : SameName(h.ents[i][1], "API-Key") /\ h.ents[i][2] # <<>>

\* The query string names a sensitive parameter; the first one it names, in
\* the order api_key, apikey, access_token.
NamesSensitive(q) ==
    Contains(q, "api_key") \/ Contains(q, "apikey") \/ Contains(q, "access_token")
FirstNamed(q) ==
    IF Contains(q, "api_key") THEN "api_key"
    ELSE IF Contains(q, "apikey") THEN "apikey" ELSE "access_token"

\* C2: in every operation a call of fetch comes after a call of checkSecurity
\* that returned, and an operation whose checkSecurity threw is rejected
\* without any call of fetch.
C2_FetchOnlyAfterSecurityCheck ==
    \A o \in OpIds :
        LET ev == ops[o].events
        IN /\ \A j \in 1..Len(ev) :
                 ev[j] = "fetch" => \E i \in 1..(j - 1) : ev[i] = "checkSecurity"
           /\ (Contains(ev, "checkSecurity") /\ ~Contains(ev, "fetch")) =>
                 ops[o].outcome = "rejected" /\ ops[o].sent = <<>>

\* C3: on a "ts" client without AuthManager, a verb call whose header set
\* carries a Basic Authorization value, under any casing of the name and in
\* any representation, is rejected with the Basic-auth error and calls fetch
\* never, whatever else the input violates.
C3_BasicAuthorizationRejected ==
    [][\A o \in OpIds :
          (/\ impl = "ts" /\ ~client.hasAuth
           /\ ops[o].pc = "idle" /\ ops'[o].pc # "idle"
           /\ CarriesBasic(hdr)) =>
              ops'[o].error = BasicAuthError /\ ops'[o].sent = <<>>]_vars

\* None of rules 1 to 4 is violated: no Basic Authorization, no sensitive
\* query parameter, no API-Key, no Authorization of another scheme than Bearer.
RulesOneToFourHold(baseUrl, h) ==
    /\ ~CarriesBasic(h)
    /\ ~NamesSensitive(baseUrl.query)
    /\ ~CarriesApiKey(h)
    /\ \A i \in 1..Len(h.ents) :
          SameName(h.ents[i][1], "Authorization") =>
              StartsWith(h.ents[i][2], <<"Bearer", " ">>)

\* C4: on a "ts" client whose base URL has the scheme http in any letter
\* case, no operation calls fetch, and an operation whose header set passes
\* rules 1 to 4 is rejected with the insecure-protocol error.
C4_PlainHttpNeverFetches ==
    \A o \in OpIds :
        (impl = "ts" /\ client.baseUrl.scheme \in {"http://", "HTTP://"}) =>
            /\ ops[o].sent = <<>>
            /\ (ops[o].checked # <<>>
                  /\ RulesOneToFourHold(client.baseUrl, ops[o].checked[1])) =>
                  ops[o].error = InsecureProtocolError

\* C5: on a "ts" client without AuthManager, a verb call whose header set
\* holds an API-Key with a non-empty value, under any casing of the name and
\* in any representation, is rejected and calls fetch never.
C5_ApiKeyRejected ==
    [][\A o \in OpIds :
          (/\ impl = "ts" /\ ~client.hasAuth
           /\ ops[o].pc = "idle" /\ ops'[o].pc # "idle"
           /\ CarriesApiKey(hdr)) =>
              ops'[o].outcome = "rejected" /\ ops'[o].sent = <<>>]_vars

\* What C6 promises of an operation whose header set reached checkSecurity on
\* a client whose base URL names a sensitive query parameter.
SensitiveParamRejected(op) ==
    /\ op.outcome = "rejected"
    /\ op.sent = <<>>
    /\ op.error \in {SensitiveParamError(FirstNamed(client.baseUrl.query))}
                      \cup (IF CarriesBasic(op.checked[1]) THEN {BasicAuthError} ELSE {})

C7_SetThenGetAnyCasing ==
    hist.op = "setHeader" =>
        \A k2 \in BagNames :
            SameName(k2, hist.key) => getHeader(impl, hdr, k2) = hist.value

\* C8: setHeader on a pair list that started without case-insensitive
\* duplicates replaces the value of the matching entry in place (its name and
\* its position kept, every other entry untouched) and appends a new entry only
\* when no entry matches, so the list never holds two entries for one
\* case-insensitive name.
C8_PairListReplaceInPlace ==
    hdr.rep = "array" =>
        /\ NoCIDup(hdr.ents)
        /\ hist.op = "setHeader" =>
             LET old == hist.before.ents
                 Matching == {j \in 1..Len(old) : SameName(old[j][1], hist.key)}
             IN /\ \A j \in 1..Len(old) :
                       hdr.ents[j] = IF j \in Matching
                                     THEN <<old[j][1], hist.value>>
                                     ELSE old[j]
                /\ IF Matching = {}
                   THEN hdr.ents = Append(old, <<hist.key, hist.value>>)
                   ELSE Len(hdr.ents) = Len(old)

\* C8's case: a pair list entry written under another casing was replaced in
\* place, ahead of an entry that stayed where it was.
C8_Witness ==
    /\ hdr.rep = "array"
    /\ hist.op = "setHeader"
    /\ Len(hdr.ents) = 2
    /\ Len(hist.before.ents) = 2
    /\ SameName(hdr.ents[1][1], hist.key)
    /\ hdr.ents[1][1] # hist.key
    /\ hdr.ents[1][2] = hist.value
    /\ hist.before.ents[1][2] # hist.value

(***************************************************************************)
(* C9 and C10: AuthManager.applyAuth.                                      *)
(***************************************************************************)
AuthorizationEntries(h) ==
    {i \in 1..Len(h.ents) : SameName(h.ents[i][1], "Authorization")}

\* C9: after applyAuth ran with a token set, the header set holds a single
\* Authorization entry (under any casing), its value is "Bearer <token>", and
\* applying applyAuth again leaves the header set as it is, whatever the
\* representation and the Authorization value held before.
C9_BearerOverwritesAndIdempotent ==
    (hist.op = "applyAuth" /\ Truthy(auth.jwtToken)) =>
        /\ Cardinality(AuthorizationEntries(hdr)) = 1
        /\ \A i \in AuthorizationEntries(hdr) :
              hdr.ents[i][2] = BearerOf(auth.jwtToken)
        /\ applyAuth(auth, hdr, cookieJar).headers = hdr

\* C10: with no token set, applyAuth raises no error and returns the header
\* set unchanged, with cookie mode disabled or enabled and the named cookie
\* present or absent.
C10_NoTokenIsNoOp ==
    (hist.op = "applyAuth" /\ auth.jwtToken = NULL) =>
        /\ hist.threw = ""
        /\ hdr = hist.before
        /\ hist.ret = hist.before.ents

(***************************************************************************)
(* C11: the no-AuthManager warning.                                        *)
(***************************************************************************)
\* The number of no-AuthManager warnings in a log.
NoAuthWarnings(log) ==
    Cardinality({i \in 1..Len(log) : log[i].level = "warn" /\ log[i].what = "no-auth-manager"})

\* The warnings the client instance has written, in its constructor and in
\* the operations run on it.
WarningsOf(c, os) ==
    NoAuthWarnings(c.log) + NoAuthWarnings(os["op1"].log) + NoAuthWarnings(os["op2"].log)

\* C11: a "ts" client constructed without AuthManager has written no no-auth
\* warning while no request was attempted on it, and exactly one once a
\* request was attempted.
C11_WarnsOnceAtFirstRequest ==
    (impl = "ts" /\ ~client.hasAuth) =>
        WarningsOf(client, ops) = IF \E o \in OpIds : ops[o].pc # "idle" THEN 1 ELSE 0

(***************************************************************************)
(* C12 to C14: handleBody and handleHeaders.                               *)
(***************************************************************************)
\* C12: handleBody returns the absent payload for GET and HEAD whatever the
\* body, and no call of fetch made by a GET or HEAD operation carries a body.
C12_GetHeadCarryNoBody ==
    /\ (hist.op = "handleBody" /\ hist.key \in {"GET", "HEAD"}) => hist.ret = NoBody
    /\ \A o \in OpIds : \A i \in 1..Len(ops[o].sent) :
          ops[o].sent[i].method \in {"GET", "HEAD"} => ops[o].sent[i].body = NoBody

\* C12's case: handleBody was called for GET with an object body, and a HEAD
\* operation has called fetch.
C12_Witness ==
    /\ hist.op = "handleBody" /\ hist.key = "GET" /\ hist.value = JsonObject
    /\ hist.ret = NoBody
    /\ ops["op1"].method = "HEAD"
    /\ Len(ops["op1"].sent) = 1

\* C13: for a method other than GET and HEAD, handleBody returns a body of a
\* native kind (ArrayBuffer, Blob, FormData, URLSearchParams, string) as it
\* is, the absent payload for an absent (undefined or null) body, and the JSON
\* serialisation of any other body, in both variants.
C13_PassThroughAbsentOrJson ==
    (hist.op = "handleBody" /\ hist.key \notin {"GET", "HEAD"}) =>
        hist.ret = IF hist.value.kind \in {"ArrayBuffer", "Blob", "FormData",
                                           "URLSearchParams", "string"}
                   THEN hist.value
                   ELSE IF hist.value.kind \in {"undefined", "null"}
                   THEN NoBody
                   ELSE JsonStringify(hist.value)

\* The entries of a header set under some casing of Content-Type.
ContentTypeEntries(h) ==
    {i \in 1..Len(h.ents) : SameName(h.ents[i][1], "Content-Type")}

\* C14: handleHeaders, given a body that is absent or truthy, adds the entry
\* Content-Type: application/json exactly when the body is present, is of no
\* native kind, and the header set holds no Content-Type under any casing; it
\* then holds exactly one.  In every other case, and for every other entry,
\* the header set stays as it was, in each representation.
C14_DefaultContentType ==
    (hist.op = "handleHeaders" /\ hist.value.kind # "falsy") =>
        LET old == hist.before
            inject == /\ hist.value.kind \notin {"undefined", "null"}
                      /\ hist.value.kind \notin {"ArrayBuffer", "Blob", "FormData",
                                                  "URLSearchParams", "string"}
                      /\ ContentTypeEntries(old) = {}
        IN IF inject
           THEN /\ Len(hdr.ents) = Len(old.ents) + 1
                /\ \A j \in 1..Len(old.ents) : hdr.ents[j] = old.ents[j]
                /\ ContentTypeEntries(hdr) = {Len(hdr.ents)}
                /\ hdr.ents[Len(hdr.ents)][2] = <<"application/json">>
           ELSE hdr = old

(***************************************************************************)
(* C15: handleContentType.                                                 *)
(***************************************************************************)
\* The priority order of the decode shapes, each with its MIME strings.
Priority ==
    << [shape |-> "json", types |-> {"application/json"}],
       [shape |-> "text", types |-> TextTypes],
       [shape |-> "xml", types |-> XmlTypes],
       [shape |-> "formData", types |-> {"multipart/form-data"}],
       [shape |-> "urlSearchParams", types |-> {"application/x-www-form-urlencoded"}],
       [shape |-> "arrayBuffer", types |-> {"application/octet-stream"}],
       [shape |-> "blob", types |-> BlobTypes] >>

\* The entries of the order of which a MIME string is contained in the value.
Matching(ct) ==
    {k \in 1..Len(Priority) : \E t \in Priority[k].types : Includes(ct, t)}

\* The classification warnings of a log.
TypeWarnings(log) ==
    {log[i] : i \in {j \in 1..Len(log) :
                       log[j].what \in {"no-content-type", "unhandled-content-type"}}}

\* C15: an operation that is reading the body of its response reads it in the
\* shape of the first entry of the priority order of which a MIME string is
\* contained in the Content-Type value, without a warning; with the header
\* absent (or empty) it reads text after the no-Content-Type warning, and with
\* a value that matches no entry it reads text after a warning naming the
\* value.  Every operation that reaches handleContentType goes on to read.
C15_FirstMatchInPriorityOrder ==
    \A o \in OpIds :
        /\ (Contains(ops[o].events, "handleContentType") /\ ops[o].pc # "done") =>
               ops[o].pc = "reading"
        /\ ops[o].pc = "reading" =>
              LET ct == ops[o].response.contentType
              IN IF ct = NULL \/ ct = <<>>
                 THEN /\ ops[o].value.shape = "text"
                      /\ TypeWarnings(ops[o].log) = {Line("warn", "no-content-type", <<>>)}
                 ELSE IF Matching(ct) = {}
                 THEN /\ ops[o].value.shape = "text"
                      /\ TypeWarnings(ops[o].log) = {Line("warn", "unhandled-content-type", ct)}
                 ELSE /\ ops[o].value.shape = Priority[Min(Matching(ct))].shape
                      /\ TypeWarnings(ops[o].log) = {}

\* C15's case: a value that holds a text type ahead of application/json is
\* read as JSON.
C15_Witness ==
    /\ ops["op1"].pc = "reading"
    /\ ops["op1"].response.contentType = <<"text/html", ", ", "application/json">>
    /\ ops["op1"].value.shape = "json"

(***************************************************************************)
(* C16 and C17: the status dispositions outside 4xx / 5xx.                 *)
(***************************************************************************)
\* handleStatusCode returned for the operation after an informational log
\* line, and the operation went on: HEAD resolves with the headers, the other
\* verbs start reading the body (the "js" variant returns at once on 204).
ContinuedAfterInfo(v, op) ==
    /\ \E i \in 1..Len(op.log) : op.log[i].level = "info" /\ op.log[i].what = "status"
    /\ op.error = NoError
    /\ op.outcome # "rejected"
    /\ IF op.method = "HEAD" THEN op.value.shape = "headers"
       ELSE IF v = "js" /\ op.response.status = 204 THEN op.value.shape = "undefined"
       ELSE Contains(op.events, "handleContentType")

C17_UnhandledStatusFails ==
    \A o \in OpIds :
        (/\ Continued(ops[o])
         /\ ops[o].response.status \notin InfoCodes \cup WarnCodes \cup ErrorCodes) =>
            LET op == ops[o]
                code == ToString(op.response.status)
            IN /\ \E i \in 1..Len(op.log) :
                     /\ op.log[i].level = "warn"
                     /\ op.log[i].arg = <<code, op.response.statusText, op.response.url>>
               /\ op.outcome = "rejected"
               /\ op.error.message[1] = "Unhandled status code: "
               /\ Contains(op.error.message, code)
               /\ Contains(op.error.message, op.response.url)
               /\ op.error # StatusError(op.response.status, op.response.url)
               /\ op.error.message[1] # code
               /\ ~Contains(op.events, "handleContentType")
               /\ op.value = NoValue

\* C17's case: a GET that received 999 is rejected.
C17_Witness ==
    /\ ops["op1"].method = "GET"
    /\ ops["op1"].response.status = 999
    /\ ops["op1"].pc = "done"
    /\ ops["op1"].outcome = "rejected"

(***************************************************************************)
(* C18: the 204 return.                                                    *)
(***************************************************************************)
\* The operation returned undefined right after handleStatusCode, without a
\* call of handleContentType or a body read.
ReturnedAbsent(op) ==
    /\ op.pc = "done"
    /\ op.outcome = "resolved"
    /\ op.value.shape = "undefined"
    /\ op.events[Len(op.events)] = "handleStatusCode"
    /\ ~Contains(op.events, "handleContentType")

\* C18 as stated: an operation of request that received 204 returns an absent
\* result after the status check and never calls handleContentType.
C18_NoContentReturnsAtOnce_AsStated ==
    \A o \in OpIds :
        (/\ Continued(ops[o])
         /\ ops[o].response.status = 204
         /\ ops[o].method # "HEAD") =>
            ReturnedAbsent(ops[o])

\* C18: the same, for the "js" variant.
C18_NoContentReturnsAtOnce ==
    \A o \in OpIds :
        (/\ impl = "js"
         /\ Continued(ops[o])
         /\ ops[o].response.status = 204
         /\ ops[o].method # "HEAD") =>
            ReturnedAbsent(ops[o])

\* C18's case: a "js" POST that received 204 with a JSON Content-Type has
\* returned.
C18_Witness ==
    /\ impl = "js"
    /\ ops["op1"].method = "POST"
    /\ ops["op1"].response.status = 204
    /\ ops["op1"].response.contentType = <<"application/json">>
    /\ ops["op1"].pc = "done"
    /\ ops["op1"].value.shape = "undefined"

(***************************************************************************)
(* C19 and C20: one transport call, one outcome.                           *)
(***************************************************************************)
\* The number of calls of fetch among the steps of an operation.
FetchSteps(op) == Cardinality({i \in 1..Len(op.events) : op.events[i] = "fetch"})

\* The operation has ended with one outcome: a value and no error, or an
\* error and no value.
OneOutcome(op) ==
    \/ op.outcome = "resolved" /\ op.error = NoError /\ op.value # NoValue
    \/ op.outcome = "rejected" /\ op.error # NoError /\ op.value = NoValue

\* C19 as stated: every verb operation that has ended has called fetch
\* exactly once and has exactly one outcome.
C19_OneCallOneOutcome_AsStated ==
    \A o \in OpIds :
        ops[o].pc = "done" =>
            /\ Len(ops[o].sent) = 1
            /\ FetchSteps(ops[o]) = 1
            /\ OneOutcome(ops[o])

\* C19: no operation calls fetch more than once, whatever failed; an
\* operation that has ended has exactly one outcome, and it has called fetch
\* exactly once unless it was rejected before the try block (by applyAuth or
\* checkSecurity), in which case it has never called it.
C19_OneCallOneOutcome ==
    \A o \in OpIds :
        /\ Len(ops[o].sent) <= 1
        /\ FetchSteps(ops[o]) = Len(ops[o].sent)
        /\ ops[o].pc # "done" => ops[o].outcome = "pending"
        /\ ops[o].pc = "done" =>
              /\ OneOutcome(ops[o])
              /\ Len(ops[o].sent) = 0 =>
                    /\ ops[o].outcome = "rejected"
                    /\ impl = "ts"
                    /\ ops[o].events[Len(ops[o].events)] \in {"applyAuth", "checkSecurity"}

\* C19's case: an operation whose transport call failed has ended rejected,
\* with the one call it made.
C19_Witness ==
    /\ ops["op1"].pc = "done"
    /\ ops["op1"].outcome = "rejected"
    /\ ops["op1"].error = NetworkError
    /\ Len(ops["op1"].sent) = 1

\* C20: an operation whose transport call rejected has written, as its last
\* log line, an error line holding its method and the URL baseUrl + endpoint,
\* and is rejected with the very error the transport rejected with; it has
\* evaluated no status, decoded nothing and called fetch once.
C20_TransportFailureRethrown ==
    \A o \in OpIds :
        ops[o].rejection # NoError =>
            LET op == ops[o]
                last == op.log[Len(op.log)]
            IN /\ op.pc = "done"
               /\ op.outcome = "rejected"
               /\ op.error = op.rejection
               /\ last.level = "error"
               /\ last.arg[1] = op.method
               /\ \E endpoint \in Endpoints :
                     last.arg[2] = UrlString(client.baseUrl) \o endpoint
               /\ ~Contains(op.events, "handleStatusCode")
               /\ ~Contains(op.events, "handleContentType")
               /\ op.response = NoResponse
               /\ op.value = NoValue
               /\ Len(op.sent) = 1

\* C20's case: the transport call of a "ts" HEAD operation rejected.
C20_Witness ==
    /\ impl = "ts"
    /\ ops["op1"].method = "HEAD"
    /\ ops["op1"].rejection = FetchFailed
    /\ ops["op1"].error = FetchFailed

(***************************************************************************)
(* C21: logging of errors.                                                 *)
(***************************************************************************)
\* The console lines that report an error: the console.error of a status
\* case, the console.warn of the default case, the line of the catch block.
ReportsError(line) ==
    \/ line.level = "error"
    \/ line.what = "unhandled-status"

ErrorReports(log) == {i \in 1..Len(log) : ReportsError(log[i])}

\* C21: every operation that is rejected has written exactly one console
\* line reporting the error, neither none nor two.
C21_ErrorLoggedExactlyOnce ==
    \A o \in OpIds :
        ops[o].outcome = "rejected" => Cardinality(ErrorReports(ops[o].log)) = 1

(***************************************************************************)
(* C22, C23: the order of the security rules and the cookie rule.          *)
(***************************************************************************)
\* The header set holds, under some casing of the name, an Authorization
\* value of another scheme than Bearer / of the Bearer scheme; the value of
\* its first Cookie entry, UNDEFINED when it has none.
CarriesNonBearer(h) ==
    \E i \in 1..Len(h.ents) :
        /\ SameName(h.ents[i][1], "Authorization")
        /\ h.ents[i][2] # <<>>
        /\ ~StartsWith(h.ents[i][2], <<"Bearer", " ">>)
CarriesBearer(h) ==
    \E i \in 1..Len(h.ents) :
        SameName(h.ents[i][1], "Authorization") /\ StartsWith(h.ents[i][2], <<"Bearer", " ">>)
CookieOf(h) == ValueAt(h.ents, FindIndexCI(h.ents, "Cookie"), UNDEFINED)

\* The error of the lowest-numbered rule that the base URL and the header set
\* violate, in the order of C22; NoError when they violate none.
LowestViolated(baseUrl, h) ==
    IF CarriesBasic(h) THEN BasicAuthError
    ELSE IF NamesSensitive(baseUrl.query)
    THEN SensitiveParamError(FirstNamed(baseUrl.query))
    ELSE IF CarriesApiKey(h) THEN ApiKeyError
    ELSE IF CarriesNonBearer(h) THEN NonBearerError
    ELSE IF baseUrl.scheme \in {"http://", "HTTP://"} THEN InsecureProtocolError
    ELSE IF CarriesBearer(h) /\ Truthy(CookieOf(h)) THEN checkCookieSecurity(CookieOf(h))
    ELSE NoError

\* C22: an operation whose header set reached checkSecurity is rejected, with
\* no call of fetch, with the error of the lowest-numbered rule its base URL
\* and header set violate, and calls fetch when they violate none.
C22_LowestRuleWins ==
    \A o \in OpIds :
        (impl = "ts" /\ ops[o].checked # <<>>) =>
            IF LowestViolated(client.baseUrl, ops[o].checked[1]) = NoError
            THEN Contains(ops[o].events, "fetch")
            ELSE /\ ~Contains(ops[o].events, "fetch")
                 /\ ops[o].error = LowestViolated(client.baseUrl, ops[o].checked[1])


\* None of rules 1 to 5 is violated.
RulesOneToFiveHold(baseUrl, h) ==
    RulesOneToFourHold(baseUrl, h) /\ baseUrl.scheme \notin {"http://", "HTTP://"}

\* checkSecurity returned for the operation and wrote the warning of the
\* cookie-less Bearer case.
WarnedOnly(op) ==
    /\ Contains(op.events, "fetch")
    /\ Contains(op.log, Line("warn", "bearer-without-cookie", <<>>))

\* C23: of an operation whose header set passes rules 1 to 5 and carries a
\* Bearer Authorization: with a Cookie header, fetch is called when the cookie
\* string holds Secure, HttpOnly and SameSite, and otherwise the operation is
\* rejected with the error of the first marker missing in that order; with no
\* Cookie header, the warning is written and fetch is called.
C23_CookieAttributesRequired ==
    \A o \in OpIds :
        (/\ impl = "ts" /\ ops[o].checked # <<>>
         /\ UrlParses(client.baseUrl)
         /\ RulesOneToFiveHold(client.baseUrl, ops[o].checked[1])
         /\ CarriesBearer(ops[o].checked[1])) =>
            LET op == ops[o]
                cookie == CookieOf(op.checked[1])
            IN IF cookie = UNDEFINED THEN WarnedOnly(op)
               ELSE IF checkCookieSecurity(cookie) = NoError
               THEN Contains(op.events, "fetch")
               ELSE /\ ~Contains(op.events, "fetch")
                    /\ op.outcome = "rejected"
                    /\ op.error = checkCookieSecurity(cookie)

(***************************************************************************)
(* C24 to C26: the order of the steps of request and headRequest.          *)
(***************************************************************************)
\* handleStatusCode returned, without throwing, for the response of the
\* operation.
StatusContinues(v, op) ==
    op.response # NoResponse /\ handleStatusCode(v, op.response).threw = NoError

FixedOrder(c, method) ==
    AuthEvents(c)
      \o (IF method = "HEAD" THEN <<"handleHeaders">> ELSE <<"handleHeaders", "handleBody">>)
      \o <<"checkSecurity", "fetch", "handleStatusCode">>
      \o (IF method = "HEAD" THEN <<>> ELSE <<"handleContentType">>)

\* The steps an operation took, the catch block left out.
StepsOf(op) == SelectSeq(op.events, LAMBDA e : e # "catch")

IsPrefix(s, t) == Len(s) <= Len(t) /\ \A i \in 1..Len(s) : s[i] = t[i]

\* C25: the steps every operation has taken so far are an initial part of the
\* fixed order, none left out and none out of place.
C25_FixedStepOrder ==
    \A o \in OpIds :
        ops[o].pc # "idle" => IsPrefix(StepsOf(ops[o]), FixedOrder(client, ops[o].method))


\* C26 as stated: once the continuation of an operation has run after its
\* transport call resolved, no other operation takes a step until it is done.
C26_TransportSoleSuspension_AsStated ==
    [][\A o, p \in OpIds :
          (o # p /\ ops[o].pc \in {"evaluated", "reading"}) => ops'[p] = ops[p]]_vars

\* C26: a verb call runs, in one step in which no other operation moves, up
\* to its call of fetch or to the error that rejects it before fetch; every
\* step moves one operation only and appends to the steps it has taken.
C26_TransportSoleSuspension ==
    [][\A o \in OpIds :
          /\ (ops[o].pc = "idle" /\ ops'[o] # ops[o]) =>
                /\ ops'[o].pc \in {"fetching", "done"}
                /\ ops'[o].pc = "fetching" <=> Contains(ops'[o].events, "fetch")
                /\ ops'[o].pc = "done" => ops'[o].outcome = "rejected"
          /\ ops'[o] # ops[o] =>
                /\ \A p \in OpIds \ {o} : ops'[p] = ops[p]
                /\ IsPrefix(ops[o].events, ops'[o].events)]_vars

\* C26's case: a verb call of the "ts" variant has run from applyAuth to
\* fetch while the other operation was suspended at its await of
\* handleStatusCode.
C26_Witness ==
    /\ impl = "ts"
    /\ ops["op1"].pc = "evaluated"
    /\ ops["op2"].pc = "fetching"
    /\ Contains(ops["op2"].events, "checkSecurity")
    /\ ops["op2"].events[Len(ops["op2"].events)] = "fetch"

(***************************************************************************)
(* C27, C28: the Authorization entry that applyAuth writes.                *)
(***************************************************************************)
\* C27: a verb call made while the AuthManager holds no token (it was never
\* set, or cleared since) hands fetch a header set without an Authorization
\* entry, the caller's header object holding none of its own.
C27_NoTokenSentAfterClear ==
    [][\A o \in OpIds :
          (ops[o].pc = "idle" /\ ops'[o].pc # "idle" /\ auth.jwtToken = NULL) =>
              \A i \in 1..Len(ops'[o].sent) :
                  AuthorizationEntries(ops'[o].sent[i].headers) = {}]_vars


\* The header set holds the entry applyAuth writes for the token.
HoldsBearer(h, token) ==
    \E i \in 1..Len(h.ents) :
        SameName(h.ents[i][1], "Authorization") /\ h.ents[i][2] = BearerOf(token)

\* C28: in the "ts" variant the header set fetch receives is the one
\* checkSecurity was called with, for every verb and representation, and on a
\* client whose AuthManager holds a token both hold the Bearer entry of
\* applyAuth.
C28_CheckedIsSent ==
    \A o \in OpIds :
        impl = "ts" =>
            /\ ops[o].sent # <<>> =>
                  /\ Len(ops[o].checked) = 1 /\ Len(ops[o].sent) = 1
                  /\ ops[o].sent[1].headers = ops[o].checked[1]
            /\ (client.hasAuth /\ Truthy(auth.jwtToken)) =>
                  /\ ops[o].checked # <<>> => HoldsBearer(ops[o].checked[1], auth.jwtToken)
                  /\ ops[o].sent # <<>> => HoldsBearer(ops[o].sent[1].headers, auth.jwtToken)

\* C28's case: fetch was called for a HEAD operation on a client whose
\* AuthManager holds a token, with a pair list that holds the Bearer entry.
C28_Witness ==
    /\ impl = "ts" /\ client.hasAuth /\ Truthy(auth.jwtToken)
    /\ ops["op1"].method = "HEAD"
    /\ ops["op1"].pc = "fetching"
    /\ ops["op1"].sent[1].headers.rep = "array"
    /\ HoldsBearer(ops["op1"].sent[1].headers, auth.jwtToken)

(***************************************************************************)
(* C29: handleBody and handleHeaders on the same body.                     *)
(***************************************************************************)
\* The payload is a JSON text that handleBody produced.
IsJsonText(payload) ==
    /\ payload.kind = "string"
    /\ payload.text # <<>>
    /\ payload.text[1] = "JSON.stringify("

\* C29: a POST, PUT or PATCH call that hands fetch a JSON text produced by
\* handleBody hands it a header set with a Content-Type entry, and one that
\* hands fetch no payload hands it the caller's header set as it was.
C29_PayloadAndContentTypeAgree ==
    [][\A o \in OpIds :
          (/\ ops[o].pc = "idle" /\ ops'[o].pc # "idle"
           /\ ops'[o].method \in {"POST", "PUT", "PATCH"}
           /\ ops'[o].sent # <<>>) =>
              /\ IsJsonText(ops'[o].sent[1].body) =>
                    ContentTypeEntries(ops'[o].sent[1].headers) # {}
              /\ ops'[o].sent[1].body = NoBody => ops'[o].sent[1].headers = hdr]_vars

(***************************************************************************)
(* C30: the URL that fetch is called with.                                 *)
(***************************************************************************)
\* C30: no operation that called fetch has a URL, the base URL followed by
\* the endpoint, that names api_key, apikey or access_token in its query.
C30_NoSensitiveParamInFetchedUrl ==
    \A o \in OpIds :
        ops[o].sent # <<>> => ~NamesSensitive(ops[o].url)

=============================================================================
